---- MODULE Spec2Model ----
(***************************************************************************)
(* A model of package miscio: RollingLineBuffer (rolling_line_buffer.go)   *)
(* and WriterAtReadCloser with its rangeSet (writerat_readcloser.go).      *)
(*                                                                         *)
(* Bytes are small naturals.  A []byte is a sequence of bytes; a nil slice *)
(* and an empty slice are both <<>> (the code only ever takes their len).  *)
(* Write, Read, WriteAt and Close run under the instance's mutex for their *)
(* whole body, so one method call is one action.  Variables whose name     *)
(* starts with "h" are history variables: they record what the callers did *)
(* and what they got back, and no method reads them.                       *)
(*                                                                         *)
(* A call that panics (a slice expression out of range) returns the error  *)
(* "panic" with the assignments made before the panicking line kept; the   *)
(* deferred Unlock has run, and the model lets a caller that recovered go  *)
(* on using the object.  Callers do not modify a slice they passed to      *)
(* Write after Write returned.  Delimiters are not empty.                  *)
(***************************************************************************)
EXTENDS Integers, Sequences, FiniteSets, TLC

\* ---------------------------------------------------------------- bounds
MaxTotal  == 4    \* bytes passed to RollingLineBuffer.Write in a behaviour
MaxCap    == 2    \* largest capacity a RollingLineBuffer is built with
MaxDest   == 3    \* longest destination passed to RollingLineBuffer.Read
MaxChunk  == 2    \* longest p passed to WriterAtReadCloser.WriteAt
MaxRead   == 2    \* longest p passed to WriterAtReadCloser.Read
MaxStream == 4    \* end of the furthest WriteAt; longest b of WriteInChunks
MaxKey    == 7    \* largest offset given to a rangeSet used on its own

VARIABLES
    \* RollingLineBuffer (rolling_line_buffer.go:97-105)
    curLine, buf, capacity, readpos, lossyReads, delim,
    \* history of the RollingLineBuffer
    hWritten,     \* concatenation of all data passed to Write
    hCompleted,   \* every record Write has appended to buf, in order
    hRefCur,      \* the partial line as section 4.3 of the spec defines it
    hRefRecs,     \* the completed records as section 4.3 defines them
    hReadOut,     \* concatenation of everything Read has returned
    hEverLost,    \* some unread record has been evicted
    hIds,         \* for each record of buf, its index in hCompleted
    hReturned,    \* the indices in hCompleted of the records Read returned
    hLost,        \* the indices of the records evicted before any Read returned them
    hAcross,      \* where in curLine a delimiter begins that two Writes brought
    rret          \* what the last RollingLineBuffer call returned

rlbVars == <<curLine, buf, capacity, readpos, lossyReads, delim,
             hWritten, hCompleted, hRefCur, hRefRecs, hReadOut, hEverLost,
             hIds, hReturned, hLost, hAcross, rret>>

VARIABLES
    \* WriterAtReadCloser (writerat_readcloser.go:67-77).  wbuf is wr.buf and
    \* wcap its capacity; a cell of wbuf is [v |-> the byte, o |-> the
    \* absolute offset the WriteAt that stored it named], o being history.
    \* bytesAvail is the key set of rangeSet.m (every value stored is true).
    \* GrowthCoeff counts halves: 2 is 1.0, 3 is 1.5, 0 is the zero value.
    wbuf, wcap, bytesAvail, bytesRead, readClosed, GrowthCoeff,
    \* history of the WriterAtReadCloser
    hStream,      \* absolute offset -> the byte last written there, 0 if none
    hDelivered,   \* the cells every Read so far has returned, in order
    hRewrite,     \* a WriteAt named an offset that Read had already returned
    hReclosed,    \* Close was called on a closed stream
    wret          \* what the last WriterAtReadCloser call returned

warcVars == <<wbuf, wcap, bytesAvail, bytesRead, readClosed, GrowthCoeff,
              hStream, hDelivered, hRewrite, hReclosed, wret>>

VARIABLES
    \* WriteInChunks and its caller (rolling_line_buffer_test.go:154-193)
    cData,        \* b, the bytes to write
    cSize,        \* chunkSize
    cpc,          \* chunk number -> where the goroutine writing it stands
    mtx,          \* wr.m: 0 when free, else 1 + the chunk number of the holder
    cReader,      \* "wait" until the test has called Read, then "done"
    hOrder        \* the chunk numbers in the order they were written

chunkVars == <<cData, cSize, cpc, mtx, cReader, hOrder>>

VARIABLES
    \* callers of one RollingLineBuffer from several goroutines
    rmtx,         \* rb.m: "free", or the method holding it, "Write" or "Read"
    lret,         \* what the last LossyReads() returned, "none" before any
    hRaced        \* LossyReads() read rb.lossyReads while rb.m was held

lockVars == <<rmtx, lret, hRaced>>

VARIABLES
    \* a rangeSet used on its own (writerat_readcloser.go:13-61)
    rsm,          \* the key set of rs.m
    rsLast        \* history: the last call, its arguments and rs.m before it

rsVars == <<rsm, rsLast>>

vars == <<rlbVars, warcVars, chunkVars, lockVars, rsVars>>

\* ------------------------------------------------------- sequence helpers
Byte == {1, 2}

SeqsUpTo(S, n) == UNION {[1..k -> S] : k \in 0..n}

Front(s) == SubSeq(s, 1, Len(s) - 1)

Last(s) == s[Len(s)]

Min(a, b) == IF a <= b THEN a ELSE b

\* s[i:] of Go, i counted from 0
From(s, i) == SubSeq(s, i + 1, Len(s))

\* bytes.HasPrefix(s[i:], sep), i counted from 0
MatchAt(s, sep, i) ==
    /\ i + Len(sep) <= Len(s)
    /\ SubSeq(s, i + 1, i + Len(sep)) = sep

\* bytes.Index(s, sep): the first index of sep in s, -1 when there is none
Index(s, sep) ==
    LET hits == {i \in 0..Len(s) : MatchAt(s, sep, i)}
    IN IF hits = {} THEN -1 ELSE CHOOSE i \in hits : \A j \in hits : i <= j

\* bytes.LastIndex(s, sep): the last index of sep in s, -1 when there is none
LastIndex(s, sep) ==
    LET hits == {i \in 0..Len(s) : MatchAt(s, sep, i)}
    IN IF hits = {} THEN -1 ELSE CHOOSE i \in hits : \A j \in hits : i >= j

\* a split at the first occurrence of sep only
SplitFirstOnly(s, sep) ==
    LET m == Index(s, sep)
    IN IF m < 0 THEN <<s>>
       ELSE <<SubSeq(s, 1, m), From(s, m + Len(sep))>>

\* bytes.Split(s, sep) for a non-empty sep: s cut at the non-overlapping
\* occurrences of sep, found left to right; always at least one segment
RECURSIVE Split(_, _)
Split(s, sep) ==
    LET m == Index(s, sep)
    IN IF m < 0 THEN <<s>>
       ELSE <<SubSeq(s, 1, m)>> \o Split(From(s, m + Len(sep)), sep)

\* the records of rs, each followed by the delimiter d, as one byte string
RECURSIVE JoinDelim(_, _)
JoinDelim(rs, d) ==
    IF Len(rs) = 0 THEN <<>> ELSE rs[1] \o d \o JoinDelim(Tail(rs), d)

\* ===================================================== WriterAtReadCloser
\* a byte of a freshly made buffer: zero, written by nobody
ZeroCell == [v |-> 0, o |-> -1]

Zeros(n) == [i \in 1..n |-> ZeroCell]

\* the absolute offsets the model's callers can name
Offsets == 0..MaxStream

\* plen and behind are history, kept for a WriteAt on an open stream: its
\* len(p), and whether its offset was below the number of bytes Read had
\* returned
WNoRet == [op |-> "none", n |-> 0, err |-> "nil", out |-> <<>>,
           plen |-> 0, behind |-> FALSE]

\* what a WriteAt(p, off) returns, before n and err are known
WriteAtRet(p, off, br) ==
    [WNoRet EXCEPT !.op = "WriteAt", !.plen = Len(p), !.behind = (off < br)]

\* a constructor that takes the preallocated bytes for written ones
InitialCoverageAll(n) == {i \in 0..(n - 1) : TRUE}

\* NewWriterAtReadCloser, line 84: newRangeSet() covers nothing
InitialCoverage(n) == {}

\* NewWriterAtReadCloser(n), with the exported field GrowthCoeff set to g
WARCNew(n, g) ==
    /\ wbuf = Zeros(n)
    /\ wcap = n
    /\ bytesAvail = InitialCoverage(n)
    /\ bytesRead = 0
    /\ readClosed = FALSE
    /\ GrowthCoeff = g
    /\ hStream = [k \in Offsets |-> 0]
    /\ hDelivered = <<>>
    /\ hRewrite = FALSE
    /\ hReclosed = FALSE
    /\ wret = WNoRet

\* an Add that misses the last offset of the range
AddShort(m, a, b) == m \cup {i \in a..(b - 2) : TRUE}

\* rangeSet.Add(a, b)
Add(m, a, b) == m \cup {i \in a..(b - 1) : TRUE}

\* rangeSet.NextCap()
RECURSIVE NextCapFrom(_, _)
NextCapFrom(m, i) == IF i \in m THEN NextCapFrom(m, i + 1) ELSE i

NextCap(m) == NextCapFrom(m, 0)

\* a Consume that drops the first n offsets and leaves the others in place
ConsumeNoRebase(m, n) == {x \in m : ~(x < n)}

\* rangeSet.Consume(n)
Consume(m, n) == {k - n : k \in {x \in m : ~(x < n)}}

\* an offset used as the buffer index, the bytes already read forgotten
AdjustedOffsetAbsolute(off, br) == off

\* WriteAt, line 105
AdjustedOffset(off, br) == off - br

\* a guard that lets every call through
NoGuard(closed) == FALSE

\* WriteAt, line 99
WriteAtGuard(closed) == closed

\* Read, line 138
ReadGuard(closed) == closed

\* int64(wr.GrowthCoeff * float64(expLen)), the coefficient in halves
GrownCap(g, expLen) == (g * expLen) \div 2

\* growBuffer, lines 123-125: a coefficient below 1 becomes 1
ClampCoeff(g) == IF g < 2 THEN 2 ELSE g

\* a growBuffer that forgets to copy the old contents
growBufferNoCopy(b, expLen) == Zeros(expLen)

\* growBuffer, lines 127-129: the new buffer, the old contents copied in
growBuffer(b, expLen) ==
    [i \in 1..expLen |-> IF i <= Len(b) THEN b[i] ELSE ZeroCell]

\* a WriteAt that never makes wr.buf longer
ResizeNever(b, c, g, expLen) == [buf |-> b, cap |-> c, coeff |-> g]

\* WriteAt, lines 107-114: wr.buf made expLen long when it is shorter; the
\* bytes between len and cap of the backing array are zero, since nothing
\* is ever written beyond len and len shrinks only from the left
Resize(b, c, g, expLen) ==
    IF Len(b) < expLen
       THEN IF c < expLen
               THEN [buf |-> growBuffer(b, expLen),
                     cap |-> GrownCap(ClampCoeff(g), expLen),
                     coeff |-> ClampCoeff(g)]
               ELSE [buf |-> b \o Zeros(expLen - Len(b)), cap |-> c, coeff |-> g]
       ELSE [buf |-> b, cap |-> c, coeff |-> g]

\* WriteAt, line 116: copy(wr.buf[adj:], p), each byte tagged with the
\* absolute offset the caller named for it
CopyAt(b, adj, p, off) ==
    [i \in 1..Len(b) |->
        IF adj < i /\ i <= adj + Len(p)
           THEN [v |-> p[i - adj], o |-> off + (i - adj) - 1]
           ELSE b[i]]

\* WriterAtReadCloser.WriteAt(p, off)
WriteAt(p, off) ==
    /\ hRewrite' = (hRewrite \/ off < Len(hDelivered))
    /\ IF WriteAtGuard(readClosed)
          THEN /\ wret' = [WNoRet EXCEPT !.op = "WriteAt", !.err = "ErrClosed"]
               /\ UNCHANGED <<wbuf, wcap, bytesAvail, GrowthCoeff, hStream>>
          ELSE LET adjustedOffset == AdjustedOffset(off, bytesRead)
                   expLen == adjustedOffset + Len(p)
                   r == Resize(wbuf, wcap, GrowthCoeff, expLen)
               IN /\ wcap' = r.cap
                  /\ GrowthCoeff' = r.coeff
                  /\ IF adjustedOffset < 0 \/ adjustedOffset > Len(r.buf)
                        THEN \* wr.buf[adjustedOffset:] panics
                             /\ wbuf' = r.buf
                             /\ wret' = [WriteAtRet(p, off, bytesRead) EXCEPT
                                            !.err = "panic"]
                             /\ UNCHANGED <<bytesAvail, hStream>>
                        ELSE /\ wbuf' = CopyAt(r.buf, adjustedOffset, p, off)
                             /\ bytesAvail' = Add(bytesAvail, adjustedOffset,
                                                  adjustedOffset + Len(p))
                             /\ hStream' = [k \in Offsets |->
                                    IF off <= k /\ k < off + Len(p)
                                       THEN p[k - off + 1] ELSE hStream[k]]
                             /\ wret' = [WriteAtRet(p, off, bytesRead) EXCEPT
                                            !.n = Len(p)]
    /\ UNCHANGED <<bytesRead, readClosed, hDelivered, hReclosed>>

\* Read, lines 147-150
Readable(m, plen) == IF NextCap(m) >= plen THEN plen ELSE NextCap(m)

\* a Read that leaves the bytes it returned in the buffer
KeepPrefix(b, n) == b

\* Read, line 156: wr.buf = wr.buf[readable:]
DropPrefix(b, n) == From(b, n)

\* WriterAtReadCloser.Read(p) with len(p) = plen
WARCRead(plen) ==
    /\ IF ReadGuard(readClosed)
          THEN /\ wret' = [WNoRet EXCEPT !.op = "Read", !.err = "EOF"]
               /\ UNCHANGED <<wbuf, wcap, bytesAvail, bytesRead, hDelivered>>
          ELSE LET readable == Readable(bytesAvail, plen)
               IN /\ bytesAvail' = Consume(bytesAvail, readable)
                  /\ bytesRead' = bytesRead + readable
                  /\ IF readable > wcap
                        THEN \* wr.buf[:readable] panics
                             /\ wret' = [WNoRet EXCEPT !.op = "Read",
                                            !.err = "panic"]
                             /\ UNCHANGED <<wbuf, wcap, hDelivered>>
                        ELSE LET full == wbuf \o Zeros(readable - Len(wbuf))
                                 out  == SubSeq(full, 1, readable)
                             IN /\ wbuf' = DropPrefix(wbuf, readable)
                                /\ wcap' = wcap - readable
                                /\ hDelivered' = hDelivered \o out
                                /\ wret' = [WNoRet EXCEPT !.op = "Read",
                                               !.n = readable, !.out = out]
    /\ UNCHANGED <<readClosed, GrowthCoeff, hStream, hRewrite, hReclosed>>

\* WriterAtReadCloser.Close()
Close ==
    /\ readClosed' = TRUE
    /\ hReclosed' = (hReclosed \/ readClosed)
    /\ wret' = [WNoRet EXCEPT !.op = "Close"]
    /\ UNCHANGED <<wbuf, wcap, bytesAvail, bytesRead, GrowthCoeff,
                   hStream, hDelivered, hRewrite>>

\* ====================================================== RollingLineBuffer
\* the delimiters a buffer is built with: "\n"-like single byte, a two-byte
\* delimiter, and a two-byte delimiter that overlaps itself
Delims == {<<1>>, <<1, 2>>, <<1, 1>>}

NoRet == [op |-> "none", plen |-> 0, n |-> 0, err |-> "nil", size |-> 0, out |-> <<>>]

\* NewRollingLineBufferWithDelimiter(capacity, delimiter)
RLBInit ==
    /\ capacity \in 0..MaxCap
    /\ delim \in Delims
    /\ curLine = <<>>
    /\ buf = <<>>
    /\ readpos = 0
    /\ lossyReads = FALSE
    /\ hWritten = <<>>
    /\ hCompleted = <<>>
    /\ hRefCur = <<>>
    /\ hRefRecs = <<>>
    /\ hReadOut = <<>>
    /\ hEverLost = FALSE
    /\ hIds = <<>>
    /\ hReturned = <<>>
    /\ hLost = {}
    /\ hAcross = {}
    /\ rret = NoRet

\* Write, lines 198-220: what the switch and the if do with the pending
\* line cur and the split data; recs are the records appended to rb.buf
Accumulate(cur, lines, flushableLastLine) ==
    LET s == IF ~flushableLastLine /\ Len(lines) = 1
                THEN [cur |-> cur \o lines[1], lines |-> <<>>, recs |-> <<>>]
             ELSE IF Len(cur) > 0
                THEN [cur |-> <<>>, lines |-> Tail(lines),
                      recs |-> <<cur \o lines[1]>>]
             ELSE [cur |-> cur, lines |-> lines, recs |-> <<>>]
    IN IF Len(s.lines) > 0
          THEN IF flushableLastLine
                  THEN [cur |-> s.cur, recs |-> s.recs \o s.lines]
                  ELSE [cur |-> Last(s.lines), recs |-> s.recs \o Front(s.lines)]
          ELSE [cur |-> s.cur, recs |-> s.recs]

\* a trim that keeps the oldest records instead of the newest
EvictOldestKept(b, c, rp, lossy) ==
    IF Len(b) > c
       THEN [buf |-> SubSeq(b, 1, c), readpos |-> Min(rp, c), lossyReads |-> lossy]
       ELSE [buf |-> b, readpos |-> rp, lossyReads |-> lossy]

\* a trim that lets the cursor go below zero
EvictNoClamp(b, c, rp, lossy) ==
    IF Len(b) > c
       THEN LET shift == Len(b) - c
            IN [buf        |-> From(b, shift),
                readpos    |-> rp - shift,
                lossyReads |-> IF rp - shift < 0 THEN TRUE ELSE lossy]
       ELSE [buf |-> b, readpos |-> rp, lossyReads |-> lossy]

\* a trim that raises the lossy flag whenever it drops a record
EvictLossyOnAnyEviction(b, c, rp, lossy) ==
    IF Len(b) > c
       THEN LET shift == Len(b) - c
            IN [buf        |-> From(b, shift),
                readpos    |-> IF rp - shift < 0 THEN 0 ELSE rp - shift,
                lossyReads |-> TRUE]
       ELSE [buf |-> b, readpos |-> rp, lossyReads |-> lossy]

\* a trim that leaves the cursor where it was
EvictKeepCursor(b, c, rp, lossy) ==
    IF Len(b) > c
       THEN LET shift == Len(b) - c
            IN [buf        |-> From(b, shift),
                readpos    |-> Min(rp, c),
                lossyReads |-> IF rp - shift < 0 THEN TRUE ELSE lossy]
       ELSE [buf |-> b, readpos |-> rp, lossyReads |-> lossy]

\* Write, lines 222-230: trim rb.buf to the capacity
Evict(b, c, rp, lossy) ==
    IF Len(b) > c
       THEN LET shift == Len(b) - c
            IN [buf        |-> From(b, shift),
                readpos    |-> IF rp - shift < 0 THEN 0 ELSE rp - shift,
                lossyReads |-> IF rp - shift < 0 THEN TRUE ELSE lossy]
       ELSE [buf |-> b, readpos |-> rp, lossyReads |-> lossy]

\* the spec's Write (section 4.3): the records and the partial line that
\* result from partial line cur and one call's data
RefWrite(cur, data, d) ==
    LET segs == Split(data, d)
        n    == Len(segs) - 1
    IN IF n = 0
          THEN [cur |-> cur \o data, recs |-> <<>>]
          ELSE [cur  |-> segs[n + 1],
                recs |-> <<cur \o segs[1]>> \o SubSeq(segs, 2, n)]

\* RollingLineBuffer.Write(data)
Write(data) ==
    /\ Len(hWritten) + Len(data) <= MaxTotal
    /\ hWritten' = hWritten \o data
    /\ LET split   == Split(data, delim)
           lastIdx == LastIndex(data, delim)
           flushableLastLine == (lastIdx = Len(data) - Len(delim))
           lines   == IF flushableLastLine THEN Front(split) ELSE split
           ref     == RefWrite(hRefCur, data, delim)
       IN /\ hRefCur' = ref.cur
          /\ hRefRecs' = hRefRecs \o ref.recs
          /\ IF Len(lines) = 0
                THEN /\ rret' = [NoRet EXCEPT !.op = "Write", !.plen = Len(data)]
                     /\ UNCHANGED <<curLine, buf, readpos, lossyReads,
                                    hCompleted, hEverLost, hIds, hLost, hAcross>>
                ELSE LET acc == Accumulate(curLine, lines, flushableLastLine)
                         ev  == Evict(buf \o acc.recs, capacity, readpos, lossyReads)
                         ids == hIds \o [i \in 1..Len(acc.recs) |->
                                             Len(hCompleted) + i]
                     IN /\ hIds' = Evict(ids, capacity, readpos, lossyReads).buf
                        /\ hLost' = hLost \cup
                              {ids[i] : i \in (readpos + 1)..(Len(ids) - capacity)}
                        /\ hAcross' =
                              (IF ~flushableLastLine /\ Len(lines) = 1
                                  THEN hAcross \cup
                                       {i \in 0..Len(curLine) :
                                          /\ MatchAt(curLine \o lines[1], delim, i)
                                          /\ i < Len(curLine)
                                          /\ Len(curLine) < i + Len(delim)}
                                  ELSE {})
                        /\ curLine' = acc.cur
                        /\ buf' = ev.buf
                        /\ readpos' = ev.readpos
                        /\ lossyReads' = ev.lossyReads
                        /\ hCompleted' = hCompleted \o acc.recs
                        /\ hEverLost' = (hEverLost \/
                               Len(buf) + Len(acc.recs) - capacity > readpos)
                        /\ rret' = [NoRet EXCEPT !.op = "Write",
                                       !.plen = Len(data), !.n = Len(data)]
    /\ UNCHANGED <<capacity, delim, hReadOut, hReturned>>

\* Read, line 150: there is no unread record
NoUnread(b, rp) == Len(b) = 0 \/ rp >= Len(b)

\* the error Read returns beside 0 bytes when there is no unread record
EmptyReadErrEOF == "EOF"

\* Read, line 151
EmptyReadErr == "nil"

\* the minimum size without the delimiter
SizeNeededNoDelim(rec, d) == Len(rec)

\* Read, lines 154-155: the size the next record needs in the destination
SizeNeeded(rec, d) == Len(rec) + Len(d)

\* a loop that never adds to `read`
RECURSIVE ReadLoopNoCount(_, _, _, _, _, _)
ReadLoopNoCount(b, rp, d, plen, read, tmp) ==
    IF rp < Len(b) /\ ~(read + (Len(b[rp + 1]) + Len(d)) > plen)
       THEN ReadLoopNoCount(b, rp + 1, d, plen, read, tmp \o b[rp + 1] \o d)
       ELSE [readpos |-> rp, tmp |-> tmp]

\* Read, lines 158-169: copy whole records while they fit
RECURSIVE ReadLoop(_, _, _, _, _, _)
ReadLoop(b, rp, d, plen, read, tmp) ==
    IF rp < Len(b) /\ ~(read + (Len(b[rp + 1]) + Len(d)) > plen)
       THEN ReadLoop(b, rp + 1, d, plen,
                     read + (Len(b[rp + 1]) + Len(d)), tmp \o b[rp + 1] \o d)
       ELSE [readpos |-> rp, tmp |-> tmp]

\* a Read that leaves the lossy flag as it found it
LossyAfterReadKept == lossyReads

\* Read, line 171: the flag after a Read that returned records
LossyAfterRead == FALSE

\* RollingLineBuffer.LossyReads(), lines 132-134
LossyReads == lossyReads

\* RollingLineBuffer.Read(p) with len(p) = plen
Read(plen) ==
    /\ IF NoUnread(buf, readpos)
          THEN /\ rret' = [NoRet EXCEPT !.op = "Read", !.plen = plen,
                              !.err = EmptyReadErr]
               /\ UNCHANGED <<readpos, lossyReads, hReadOut, hReturned>>
       ELSE IF SizeNeeded(buf[readpos + 1], delim) > plen
          THEN /\ rret' = [NoRet EXCEPT !.op = "Read", !.plen = plen,
                              !.err = "ErrShortBuffer",
                              !.size = SizeNeeded(buf[readpos + 1], delim)]
               /\ UNCHANGED <<readpos, lossyReads, hReadOut, hReturned>>
       ELSE LET r == ReadLoop(buf, readpos, delim, plen, 0, <<>>)
                n == Min(plen, Len(r.tmp))      \* copy(buf, tmp)
            IN /\ readpos' = r.readpos
               /\ lossyReads' = LossyAfterRead
               /\ hReadOut' = hReadOut \o SubSeq(r.tmp, 1, n)
               /\ hReturned' = hReturned \o SubSeq(hIds, readpos + 1, r.readpos)
               /\ rret' = [NoRet EXCEPT !.op = "Read", !.plen = plen,
                              !.n = n, !.out = SubSeq(r.tmp, 1, n)]
    /\ UNCHANGED <<curLine, buf, capacity, delim, hWritten, hCompleted,
                   hRefCur, hRefRecs, hEverLost, hIds, hLost, hAcross>>

\* no WriteInChunks under way
ChunkIdle ==
    /\ cData = <<>>
    /\ cSize = 1
    /\ cpc = <<>>
    /\ mtx = 0
    /\ cReader = "wait"
    /\ hOrder = <<>>

\* no goroutine inside a RollingLineBuffer method, LossyReads never called
LockIdle ==
    /\ rmtx = "free"
    /\ lret = "none"
    /\ hRaced = FALSE

\* the zero rangeSet before its first call
RSNew ==
    /\ rsm = {}
    /\ rsLast = [op |-> "new", a |-> 0, b |-> 0, n |-> 0, before |-> {}]

RLBWrite ==
    /\ \E data \in SeqsUpTo(Byte, MaxTotal) : Write(data)
    /\ UNCHANGED <<warcVars, chunkVars, lockVars, rsVars>>

RLBRead ==
    /\ \E plen \in 0..MaxDest : Read(plen)
    /\ UNCHANGED <<warcVars, chunkVars, lockVars, rsVars>>

RLBNext == RLBWrite \/ RLBRead

\* a new RollingLineBuffer; the other objects are not used
RLBAlone ==
    /\ RLBInit
    /\ WARCNew(0, 0)
    /\ ChunkIdle
    /\ LockIdle
    /\ RSNew

SpecRLB == RLBAlone /\ [][RLBNext]_vars

\* Write, lines 179-193: the call does not return before rb.m.Lock()
WriteTakesLock(data, d) ==
    LET split == Split(data, d)
        flushableLastLine == (LastIndex(data, d) = Len(data) - Len(d))
    IN Len(IF flushableLastLine THEN Front(split) ELSE split) > 0

\* a goroutine calls Write or Read and gets past rb.m.Lock() (lines 195, 147)
GoLock ==
    /\ rmtx = "free"
    /\ rmtx' \in {"Write", "Read"}
    /\ UNCHANGED <<lret, hRaced, rlbVars, warcVars, chunkVars, rsVars>>

\* the goroutine holding rb.m runs Write from line 196 on and unlocks
GoWrite ==
    /\ rmtx = "Write"
    /\ \E data \in SeqsUpTo(Byte, MaxTotal) :
          WriteTakesLock(data, delim) /\ Write(data)
    /\ rmtx' = "free"
    /\ UNCHANGED <<lret, hRaced, warcVars, chunkVars, rsVars>>

\* a Write that returns at line 192, before rb.m.Lock()
GoWriteEarly ==
    /\ \E data \in SeqsUpTo(Byte, MaxTotal) :
          ~WriteTakesLock(data, delim) /\ Write(data)
    /\ UNCHANGED <<lockVars, warcVars, chunkVars, rsVars>>

\* the goroutine holding rb.m runs Read from line 148 on and unlocks
GoRead ==
    /\ rmtx = "Read"
    /\ \E plen \in 0..MaxDest : Read(plen)
    /\ rmtx' = "free"
    /\ UNCHANGED <<lret, hRaced, warcVars, chunkVars, rsVars>>

\* a goroutine calls LossyReads(), which reads rb.lossyReads without
\* rb.m (lines 132-134); while another goroutine is inside Write or Read
\* the read races with the writes of lines 171 and 228 and may see either
\* value
GoLossyReads ==
    /\ \E v \in (IF rmtx = "free" THEN {LossyReads} ELSE BOOLEAN) :
          lret' = (IF v THEN "true" ELSE "false")
    /\ hRaced' = (hRaced \/ rmtx # "free")
    /\ UNCHANGED <<rmtx, rlbVars, warcVars, chunkVars, rsVars>>

GoNext == GoLock \/ GoWrite \/ GoWriteEarly \/ GoRead \/ GoLossyReads

\* one RollingLineBuffer shared by goroutines
SpecGo == RLBAlone /\ [][GoNext]_vars

\* the values callers give the exported GrowthCoeff: unset (growBuffer makes it 1.0) and 1.5
Coeffs == {0, 3}

\* the sizes NewWriterAtReadCloser preallocates: none, and two bytes
InitSizes == {0, 2}

\* a RollingLineBuffer nobody has touched
RLBIdle ==
    /\ capacity = 0
    /\ delim = <<1>>
    /\ curLine = <<>>
    /\ buf = <<>>
    /\ readpos = 0
    /\ lossyReads = FALSE
    /\ hWritten = <<>>
    /\ hCompleted = <<>>
    /\ hRefCur = <<>>
    /\ hRefRecs = <<>>
    /\ hReadOut = <<>>
    /\ hEverLost = FALSE
    /\ hIds = <<>>
    /\ hReturned = <<>>
    /\ hLost = {}
    /\ hAcross = {}
    /\ rret = NoRet

WARCInit ==
    /\ \E n \in InitSizes : \E g \in Coeffs : WARCNew(n, g)
    /\ RLBIdle
    /\ ChunkIdle
    /\ LockIdle
    /\ RSNew

WARCWriteAt ==
    /\ \E p \in SeqsUpTo(Byte, MaxChunk) : \E off \in 0..(MaxStream - Len(p)) :
          WriteAt(p, off)
    /\ UNCHANGED <<rlbVars, chunkVars, lockVars, rsVars>>

WARCReadAny ==
    /\ \E plen \in 0..MaxRead : WARCRead(plen)
    /\ UNCHANGED <<rlbVars, chunkVars, lockVars, rsVars>>

WARCClose ==
    /\ Close
    /\ UNCHANGED <<rlbVars, chunkVars, lockVars, rsVars>>

WARCNext == WARCWriteAt \/ WARCReadAny \/ WARCClose

SpecWARC == WARCInit /\ [][WARCNext]_vars

\* a zero rangeSet; the other objects are not used
RSAlone ==
    /\ RSNew
    /\ RLBIdle
    /\ WARCNew(0, 0)
    /\ ChunkIdle
    /\ LockIdle

\* rs.Add(a, b)
RSAdd ==
    /\ \E a \in 0..MaxKey : \E b \in 0..(MaxKey + 1) :
          /\ rsm' = Add(rsm, a, b)
          /\ rsLast' = [op |-> "Add", a |-> a, b |-> b, n |-> 0, before |-> rsm]
    /\ UNCHANGED <<rlbVars, warcVars, chunkVars, lockVars>>

\* rs.NextCap()
RSNextCap ==
    /\ rsLast' = [op |-> "NextCap", a |-> 0, b |-> 0, n |-> NextCap(rsm),
                  before |-> rsm]
    /\ UNCHANGED <<rsm, rlbVars, warcVars, chunkVars, lockVars>>

\* rs.Consume(n), called as its comment requires with n <= rs.NextCap()
RSConsume ==
    /\ \E n \in 0..NextCap(rsm) :
          /\ rsm' = Consume(rsm, n)
          /\ rsLast' = [op |-> "Consume", a |-> 0, b |-> 0, n |-> n,
                        before |-> rsm]
    /\ UNCHANGED <<rlbVars, warcVars, chunkVars, lockVars>>

RSNext == RSAdd \/ RSNextCap \/ RSConsume

SpecRangeSet == RSAlone /\ [][RSNext]_vars

\* ------------------------------------- WriteInChunks, then one Read
\* the number of goroutines WriteInChunks starts for len(b) = n
NChunks(n, size) == (n + size - 1) \div size

\* chunk := b[i:upperBound] for i = k * chunkSize
Chunk(b, size, k) == SubSeq(b, k * size + 1, Min(k * size + size, Len(b)))

\* a fresh NewWriterAtReadCloser(n) and WriteInChunks(w, b, 0, chunkSize)
\* about to start its goroutines
ChunksInit ==
    /\ \E n \in InitSizes : \E g \in Coeffs : WARCNew(n, g)
    /\ RLBIdle
    /\ cData \in SeqsUpTo(Byte, MaxStream)
    /\ cSize \in 1..MaxChunk
    /\ cpc = [k \in 1..NChunks(Len(cData), cSize) |-> "start"]
    /\ mtx = 0
    /\ cReader = "wait"
    /\ hOrder = <<>>
    /\ LockIdle
    /\ RSNew

\* goroutine k enters WriteAt: wr.m.Lock()
ChunkLock(k) ==
    /\ cpc[k] = "start"
    /\ mtx = 0
    /\ mtx' = k
    /\ cpc' = [cpc EXCEPT ![k] = "locked"]
    /\ UNCHANGED <<cData, cSize, cReader, hOrder, warcVars>>

\* goroutine k runs the body of WriteAt(chunk, offset) and unlocks
ChunkWrite(k) ==
    /\ cpc[k] = "locked"
    /\ mtx = k
    /\ WriteAt(Chunk(cData, cSize, k - 1), (k - 1) * cSize)
    /\ mtx' = 0
    /\ cpc' = [cpc EXCEPT ![k] = "done"]
    /\ hOrder' = Append(hOrder, k)
    /\ UNCHANGED <<cData, cSize, cReader>>

\* after wg.Wait() the test reads into a buffer of len(expected) bytes
ChunkRead ==
    /\ cReader = "wait"
    /\ \A k \in DOMAIN cpc : cpc[k] = "done"
    /\ mtx = 0
    /\ WARCRead(Len(cData))
    /\ cReader' = "done"
    /\ UNCHANGED <<cData, cSize, cpc, mtx, hOrder>>

ChunkLockAny ==
    /\ \E k \in DOMAIN cpc : ChunkLock(k)
    /\ UNCHANGED <<rlbVars, lockVars, rsVars>>

ChunkWriteAny ==
    /\ \E k \in DOMAIN cpc : ChunkWrite(k)
    /\ UNCHANGED <<rlbVars, lockVars, rsVars>>

ChunkReadAll ==
    /\ ChunkRead
    /\ UNCHANGED <<rlbVars, lockVars, rsVars>>

ChunksNext == ChunkLockAny \/ ChunkWriteAny \/ ChunkReadAll

SpecChunks == ChunksInit /\ [][ChunksNext]_vars

\* ----------------------------------------- WriterAtReadCloser: the claims
\* the length of the gap-free run of written absolute offsets from k on
RECURSIVE RunFrom(_)
RunFrom(k) == IF k \in Offsets /\ hStream[k] # 0 THEN 1 + RunFrom(k + 1) ELSE 0

\* C2: on a stream that is not closed, Read(p) returns n = min(L, len(p))
\* bytes and a nil error, L the length of the gap-free run of written
\* offsets from the absolute offset "bytes returned so far"; the bytes are
\* the last values written at absolute offsets [consumed, consumed + n),
\* so 0 bytes while the byte at the origin is unwritten.
C2_ReadContiguousPrefix ==
    [][(wret'.op = "Read" /\ ~readClosed) =>
       \A plen \in 0..MaxRead : WARCRead(plen) =>
          LET consumed == Len(hDelivered)
              n == Min(RunFrom(consumed), plen)
          IN /\ wret'.err = "nil"
             /\ wret'.n = n
             /\ Len(wret'.out) = n
             /\ hDelivered' = hDelivered \o wret'.out
             /\ \A i \in 1..n :
                   /\ wret'.out[i].v = hStream[consumed + i - 1]
                   /\ wret'.out[i].o = consumed + i - 1]_vars

\* C2 witness: after earlier Reads had consumed part of the stream, a Read
\* returned the bytes at the new origin and stopped at a gap: the byte at
\* the origin is now unwritten while a later offset is covered.
C2_Witness ==
    /\ wret.op = "Read"
    /\ wret.n > 0
    /\ Len(hDelivered) > wret.n
    /\ bytesAvail # {}
    /\ 0 \notin bytesAvail

\* C3: no byte is returned twice: the absolute offsets of the bytes the
\* Reads return increase strictly, also after a WriteAt that names an
\* offset already consumed.
C3_NoRedelivery ==
    \A i \in 1..Len(hDelivered) : \A j \in 1..Len(hDelivered) :
        i < j => hDelivered[i].o < hDelivered[j].o

\* C3 witness: a WriteAt named an offset that had been consumed, and a
\* later Read returned bytes.
C3_Witness ==
    /\ hRewrite
    /\ wret.op = "Read"
    /\ wret.n > 0

\* C4: once Close has been called the stream stays closed: every later
\* WriteAt returns 0 and os.ErrClosed, every later Read returns 0 and
\* io.EOF, and Close returns nil whenever it is called.
C4_ClosedForever ==
    [][/\ wret'.op = "Close" => (wret'.err = "nil" /\ readClosed')
       /\ readClosed =>
             /\ readClosed'
             /\ wret'.op = "WriteAt" => (wret'.n = 0 /\ wret'.err = "ErrClosed")
             /\ wret'.op = "Read" => (wret'.n = 0 /\ wret'.err = "EOF")
             /\ wret'.op \in {"WriteAt", "Read", "Close"}]_vars

\* C4 witness: Close was called twice and a later WriteAt failed with
\* os.ErrClosed.
C4_Witness ==
    /\ hReclosed
    /\ readClosed
    /\ wret.op = "WriteAt"
    /\ wret.err = "ErrClosed"

\* C5 as stated: Read reports end-of-stream only once the bytes that were
\* contiguously covered at the Close have been drained.
C5_EOFOnlyWhenDrained ==
    (wret.op = "Read" /\ wret.err = "EOF") => NextCap(bytesAvail) = 0

\* C5 amended: after Close every Read reports end-of-stream at once with 0
\* bytes, whether or not contiguously covered bytes remain; those bytes are
\* never delivered and the buffer keeps them.
C5_EOFAtOnce ==
    [][readClosed =>
          /\ hDelivered' = hDelivered
          /\ UNCHANGED <<wbuf, bytesAvail, bytesRead>>
          /\ wret'.op = "Read" => wret'.err = "EOF"]_vars

\* C5 witness: a Read after Close reported end-of-stream while bytes were
\* contiguously covered at the origin.
C5_Witness ==
    /\ readClosed
    /\ wret.op = "Read"
    /\ wret.err = "EOF"
    /\ NextCap(bytesAvail) > 0

\* C6: when concurrent producers WriteAt the chunks of b, which together
\* cover offsets [0, len(b)) of a fresh stream, then in every interleaving a
\* Read into len(b) bytes issued after all of them finished returns len(b)
\* bytes equal to b.
C6_ChunksReadBack ==
    cReader = "done" =>
        /\ wret.op = "Read"
        /\ wret.err = "nil"
        /\ wret.n = Len(cData)
        /\ [i \in 1..Len(wret.out) |-> wret.out[i].v] = cData

\* C6 witness: three or more chunks were written in an order that is not
\* the offset order, the last chunk first, and the Read returned b.
C6_Witness ==
    /\ cReader = "done"
    /\ Len(hOrder) >= 3
    /\ hOrder[1] = Len(hOrder)
    /\ hOrder[2] = 1
    /\ wret.n = Len(cData)
    /\ 1 \in {cData[i] : i \in 1..Len(cData)}
    /\ 2 \in {cData[i] : i \in 1..Len(cData)}

\* ------------------------------------------ RollingLineBuffer: the claims
\* the last n elements of s
LastN(s, n) == SubSeq(s, Len(s) - n + 1, Len(s))

\* the unread records of the buffer
Unread == From(buf, readpos)

\* the largest number of leading records of rs that, each with its
\* delimiter, fit in plen bytes
MaxFit(rs, d, plen) ==
    LET fit == {k \in 0..Len(rs) : Len(JoinDelim(SubSeq(rs, 1, k), d)) <= plen}
    IN CHOOSE k \in fit : \A m \in fit : m <= k

\* C1: after every Write (and every Read between them) the buffer stores at
\* most `capacity` records, and they are exactly the last
\* min(capacity, k) of the k records completed so far, in arrival order.
C1_KeepsLastRecords ==
    /\ Len(buf) <= capacity
    /\ buf = LastN(hCompleted, Min(capacity, Len(hCompleted)))

\* C1 witness: more records were completed than fit, some were read before
\* the eviction, and two records are retained.
C1_Witness ==
    /\ rret.op = "Write"
    /\ Len(hCompleted) > capacity
    /\ Len(buf) = 2
    /\ hReadOut # <<>>

\* C7: the bytes written after the last delimiter are held in the pending
\* partial line, and the records stored are the partial bytes accumulated
\* across the Write calls followed by the delimited segments of each call:
\* curLine and the completed records are those of section 4.3.
C7_PartialLineHeld ==
    /\ curLine = hRefCur
    /\ hCompleted = hRefRecs

\* C8: a successful Read returns the next j >= 1 unread records, each
\* followed by one delimiter, j the largest count that fits the destination,
\* and advances the cursor by j; while no unread record has been evicted,
\* the Reads so far concatenate to the completed records that were read.
C8_ReadWholeRecords ==
    [][(rret'.op = "Read" /\ rret'.err = "nil" /\ readpos < Len(buf)) =>
          LET j == MaxFit(Unread, delim, rret'.plen)
          IN /\ j >= 1
             /\ rret'.out = JoinDelim(SubSeq(Unread, 1, j), delim)
             /\ rret'.n = Len(rret'.out)
             /\ readpos' = readpos + j
             /\ ~hEverLost' =>
                   hReadOut' = JoinDelim(
                       SubSeq(hCompleted', 1,
                              Len(hCompleted') - (Len(buf') - readpos')),
                       delim')]_vars

\* C8 witness: a Read returned one whole record, an empty one (a bare
\* delimiter), and left the next record unread because it did not fit.
C8_Witness ==
    /\ rret.op = "Read"
    /\ rret.n > 0
    /\ rret.out = delim
    /\ readpos = 1
    /\ readpos < Len(buf)
    /\ rret.plen > rret.n

\* C9: when the next unread record plus the delimiter is longer than the
\* destination, Read returns 0 bytes and an ErrShortBuffer whose SizeNeeded
\* is record length + delimiter length, and the cursor, the stored records,
\* the partial line and the lossy flag are unchanged.
C9_ShortBufferKeepsState ==
    [][(/\ rret'.op = "Read"
        /\ readpos < Len(buf)
        /\ Len(buf[readpos + 1]) + Len(delim) > rret'.plen) =>
          /\ rret'.n = 0
          /\ rret'.err = "ErrShortBuffer"
          /\ rret'.size = Len(buf[readpos + 1]) + Len(delim)
          /\ UNCHANGED <<readpos, buf, curLine, lossyReads>>]_vars

\* C9 witness: a Read failed with ErrShortBuffer on a destination that
\* holds the record but not its delimiter, with the lossy flag set and a
\* partial line pending.
C9_Witness ==
    /\ rret.op = "Read"
    /\ rret.err = "ErrShortBuffer"
    /\ rret.size = rret.plen + Len(delim)
    /\ lossyReads
    /\ Len(curLine) > 0

C11_DrainedReadEOF ==
    (/\ rret.op = "Read"
     /\ rret.n = 0
     /\ Len(buf) > 0
     /\ readpos = Len(buf)
     /\ hReadOut # <<>>) => rret.err = "EOF"

\* the number of records the step dropped from the front of rb.buf
EvictedNow == Len(buf) + (Len(hCompleted') - Len(hCompleted)) - Len(buf')

\* C12: the read cursor is always between 0 and the number of stored
\* records, both included, and a Write that evicted a record no Read had
\* returned leaves the cursor at 0, on the oldest record it retained.
C12_CursorInRange ==
    [][/\ 0 <= readpos /\ readpos <= Len(buf)
       /\ 0 <= readpos' /\ readpos' <= Len(buf')
       /\ (rret'.op = "Write" /\ EvictedNow > readpos) =>
             (readpos' = 0 /\ buf' = LastN(hCompleted', capacity))]_vars

\* C12 witness: capacity 2, three records written and none read: the last
\* two are retained and the cursor is on the second record written.
C12_Witness ==
    /\ rret.op = "Write"
    /\ capacity = 2
    /\ Len(hCompleted) = 3
    /\ hReadOut = <<>>
    /\ buf = SubSeq(hCompleted, 2, 3)
    /\ readpos = 0

\* C13: a Write sets the lossy flag exactly when it evicts at least one
\* record that no Read had returned, that is when it evicts more records
\* than the cursor counted before the eviction; any other Write leaves the
\* flag as it was.
C13_LossyIffUnreadEvicted ==
    [][rret'.op = "Write" =>
          lossyReads' = (IF EvictedNow > readpos THEN TRUE ELSE lossyReads)]_vars

\* C13 witness: a Write has evicted a record, every record evicted so far
\* had been returned by a Read before, and the flag is still down.
C13_Witness ==
    /\ rret.op = "Write"
    /\ rret.n > 0
    /\ capacity > 0
    /\ Len(buf) = capacity
    /\ Len(hCompleted) > capacity
    /\ hReadOut # <<>>
    /\ ~hEverLost
    /\ ~lossyReads

C15_WriteAtAlwaysSucceeds ==
    (wret.op = "WriteAt" /\ ~readClosed) => wret.err = "nil"

\* C15: on a stream that is not closed, WriteAt(data, offset) with an
\* offset not below the number of bytes Read has returned so far returns
\* len(data) and a nil error; with an offset below it (a write behind the
\* consumed origin, which the buffer does not support) it panics.
C15_WriteAtAheadSucceeds ==
    (wret.op = "WriteAt" /\ ~readClosed) =>
        IF wret.behind
           THEN wret.err = "panic"
           ELSE wret.err = "nil" /\ wret.n = wret.plen

\* C15 witness: after Read has returned bytes, a WriteAt beyond the end of
\* the buffer has stored bytes and returned their number.
C15_Witness ==
    /\ wret.op = "WriteAt"
    /\ wret.err = "nil"
    /\ wret.n > 0
    /\ bytesRead > 0
    /\ Len(wbuf) + bytesRead > wret.n + 1
    /\ ~readClosed

\* C16: every public operation takes the instance's mutex for its whole
\* duration, so no operation reads or writes the instance's mutable state
\* while another operation holds the lock; of the RollingLineBuffer this
\* says that LossyReads never reads the flag while Write or Read holds rb.m.
C16_EveryOperationLocks == ~hRaced

\* the indices in hCompleted of the records Read has returned, as a set
ReturnedSet == {hReturned[i] : i \in DOMAIN hReturned}

\* the indices in hCompleted of the stored records at and after the cursor
UnreadSet == {hIds[i] : i \in (readpos + 1)..Len(hIds)}

\* C17: Read returns every completed record at most once and in the order
\* of completion; a record is skipped only if it was evicted before any
\* Read returned it, so evicting records already returned neither returns
\* a record again nor skips the next unread one.
C17_EachRecordOnceInOrder ==
    /\ \A i \in DOMAIN hReturned : \A j \in DOMAIN hReturned :
          i < j => hReturned[i] < hReturned[j]
    /\ hReadOut = JoinDelim([i \in DOMAIN hReturned |-> hCompleted[hReturned[i]]],
                            delim)
    /\ \A k \in 1..Len(hCompleted) :
          /\ k \in ReturnedSet \cup hLost \cup UnreadSet
          /\ ~(k \in ReturnedSet /\ k \in hLost)
          /\ ~(k \in ReturnedSet /\ k \in UnreadSet)
          /\ ~(k \in hLost /\ k \in UnreadSet)
          /\ k \in UnreadSet => \A r \in ReturnedSet \cup hLost : r < k

\* C17 witness: capacity 1; the first record was returned and then
\* evicted by the second, which the next Read returned; nothing was lost.
C17_Witness ==
    /\ rret.op = "Read"
    /\ capacity = 1
    /\ hReturned = <<1, 2>>
    /\ hLost = {}
    /\ Len(hCompleted) = 2

\* C18 as the claim states it: whatever the delimiter, of one byte or of
\* several, and whatever was written, the pending partial line never
\* contains the delimiter.
C18_NoDelimiterInPartial == Index(curLine, delim) = -1

\* C18: no occurrence of the delimiter lies within the bytes that one
\* Write appended to the pending partial line, so with a one-byte
\* delimiter the partial line never contains the delimiter; with a
\* delimiter of several bytes it contains one only where the delimiter's
\* bytes arrived in two different Write calls.
C18_DelimiterOnlyAcrossWrites ==
    /\ \A i \in 0..Len(curLine) : MatchAt(curLine, delim, i) => i \in hAcross
    /\ Len(delim) = 1 => Index(curLine, delim) = -1

\* C18 witness: the partial line holds a delimiter whose bytes came from
\* two Write calls.
C18_Witness ==
    /\ rret.op = "Write"
    /\ Len(delim) = 2
    /\ Index(curLine, delim) >= 0
    /\ hAcross # {}

\* every covered offset is inside wr.buf and holds a byte some WriteAt
\* stored for that place of the stream; Read has returned bytesRead bytes,
\* each of them written
CoverageInBuffer ==
    /\ \A i \in bytesAvail :
          /\ 0 <= i /\ i < Len(wbuf)
          /\ wbuf[i + 1].o = bytesRead + i
    /\ NextCap(bytesAvail) <= Len(wbuf)
    /\ bytesRead = Len(hDelivered)
    /\ \A i \in DOMAIN hDelivered : hDelivered[i].o >= 0

\* C21: every offset tracked by the coverage set lies in [0, len(buf)), so
\* the contiguous prefix is at most len(buf) long; the bytes-consumed
\* counter never decreases and is the number of bytes all Reads so far
\* have returned; preallocated bytes that no WriteAt wrote are not covered
\* and Read never returns them.
C21_CoverageWithinBuffer ==
    [][CoverageInBuffer /\ CoverageInBuffer' /\ bytesRead' >= bytesRead]_vars

\* C21 witness: a buffer preallocated with two bytes, the second one
\* written and the first not: only the second is covered, and a Read has
\* returned nothing.
C21_Witness ==
    /\ wret.op = "Read"
    /\ wret.n = 0
    /\ wret.err = "nil"
    /\ bytesRead = 0
    /\ Len(wbuf) = 2
    /\ wbuf[1].o = -1
    /\ bytesAvail = {1}

\* ------------------------------------------------------ rangeSet: the claim
\* the largest N such that every offset of [0, N) is in m
LargestPrefix(m) ==
    CHOOSE N \in 0..(MaxKey + 2) : (\A i \in 0..(N - 1) : i \in m) /\ N \notin m

\* C19: after Consume(n) with n <= NextCap(), offset k is covered exactly
\* when k + n was covered before, NextCap() is what it was minus n, and no
\* tracked offset is negative; Add(a, b) covers [a, b) besides what was
\* covered, and adding the same range again changes nothing; NextCap() is
\* the largest N such that all of [0, N) is covered.
C19_RangeSetAlgebra ==
    /\ \A k \in rsm : k >= 0
    /\ NextCap(rsm) = LargestPrefix(rsm)
    /\ rsLast.op = "NextCap" => rsLast.n = LargestPrefix(rsm)
    /\ rsLast.op = "Consume" =>
          /\ \A k \in 0..(MaxKey + 1) :
                (k \in rsm) = (k + rsLast.n \in rsLast.before)
          /\ NextCap(rsm) = NextCap(rsLast.before) - rsLast.n
    /\ rsLast.op = "Add" =>
          /\ rsm = rsLast.before \cup {k \in 0..MaxKey : rsLast.a <= k /\ k < rsLast.b}
          /\ Add(rsm, rsLast.a, rsLast.b) = rsm

\* C19 witness: the example of Consume's comment: [0,5) and [6,8) covered,
\* Consume(4) leaves [0,1) and [2,4).
C19_Witness ==
    /\ rsLast.op = "Consume"
    /\ rsLast.before = {0, 1, 2, 3, 4, 6, 7}
    /\ rsLast.n = 4
    /\ rsm = {0, 2, 3}

\* C20: whatever the delimiter, as long as no record has been evicted the
\* stored records, each followed by the delimiter, and then the pending
\* partial line are together exactly the bytes written so far, and every
\* Write returns len(data) and a nil error: no byte is silently dropped.
C20_NoByteDropped ==
    Len(hCompleted) <= capacity =>
        /\ JoinDelim(buf, delim) \o curLine = hWritten
        /\ rret.op = "Write" => (rret.n = rret.plen /\ rret.err = "nil")

====
